---- MODULE Spec2Model ----
(***************************************************************************)
(* Model of the Greenchoice portal client                                  *)
(* (custom_components/greenchoice/api.py, model.py, sensor.py).            *)
(*                                                                         *)
(* The client is single threaded.  The caller invokes update(), or         *)
(* update_contract_values() on its own.  Every HTTP exchange is one step   *)
(* of the model: the portal's answer (status, redirect history) is an      *)
(* input of the step.  The body of a response is read only by              *)
(* _validate_response (response.json()), so it is an input of the step     *)
(* that consumes the returned response.                                    *)
(*                                                                         *)
(* The classes of model.py are pydantic models.  Neither model.py nor      *)
(* pydantic's BaseModel defines from_dict, so Preferences.from_dict        *)
(* (api.py line 222) and Rates.from_dict (line 336) raise AttributeError,  *)
(* which no handler catches: update() ends there, and lines 227-279 and    *)
(* 338-349 are never executed.                                             *)
(*                                                                         *)
(* Python values:  None / JSON null is the empty sequence <<>>, a present  *)
(* nullable value v is <<v>>; a JSON object is a record; floats and        *)
(* timestamps are integers; a Location header is the sequence of its       *)
(* characters.                                                             *)
(***************************************************************************)
EXTENDS Integers, Sequences, FiniteSets, TLC

VARIABLES
    pc,              \* position of the method the caller invoked: idle, the
                     \* stage in progress (preferences, init, rates, tariffs),
                     \* done, raised
    op,              \* the method the caller invoked last ("" before the first)
    calls,           \* the number of methods the caller has invoked
    exc,             \* the exception that left the method ("" when none)
    result,          \* self.result
    rpc,             \* position inside request(): none, send, received, login_get,
                     \* login_post, login_oidc, replay, returned; where request()
                     \* stood when an exception left the method
    endpoint,        \* the endpoint of the request() call in progress
    retry,           \* _retry_count of the innermost request() frame
    response,        \* local `response` of the innermost request() frame
    ret,             \* value returned by the outermost request() call
    sends,           \* target requests sent during the current request() call
    logins,          \* _activate_session calls during the current request() call
    frame_sends,     \* target requests sent by the innermost request() frame
    frame_logins,    \* _activate_session calls of the innermost request() frame
    redirected,      \* history: the first response of the current request() call
                     \* had a 302 redirect to the authorize endpoint in its history
    session,         \* self.session: the number of the requests.Session object
    closed,          \* the sessions close() was called on
    sent_on,         \* history: the session the latest target request of the
                     \* current request() call was sent on (0 before the first)
    handshake,       \* history: the requests the _activate_session call of the
                     \* innermost request() frame has sent, each with its session
                     \* and whether its answer held the fields read from it
    portal_meter,    \* the meter readings the portal holds for the account
    preferences_json,\* local `preferences_json` of update_usage_values
    init_config,     \* local `init_config` of update_contract_values
    pricing_json,    \* local `pricing_details` of update_contract_values at line 332
    pricing_details  \* local `pricing_details` of update_contract_values at line 334

requestVars == <<rpc, endpoint, retry, response, ret, sends, logins, frame_sends,
                 frame_logins, redirected, session, closed, sent_on, handshake>>

updateVars == <<pc, op, calls, exc, result, portal_meter, preferences_json,
                init_config, pricing_json, pricing_details>>

vars == <<pc, op, calls, exc, result, rpc, endpoint, retry, response, ret, sends,
          logins, frame_sends, frame_logins, redirected, session, closed,
          sent_on, handshake, portal_meter, preferences_json, init_config,
          pricing_json, pricing_details>>

-----------------------------------------------------------------------------
(* Bounds of the model *)

MaxCalls == 2        \* methods the caller invokes on the client
MaxAddresses == 2    \* addresses of the client in a generated init payload
MaxContracts == 2    \* contracts of an address in a generated init payload
MaxMonths == 2       \* months of a product in a generated meter payload
MaxReadings == 2     \* readings of a month in a generated meter payload

(* Program constants *)

RetryCount == 2      \* default of _retry_count

None == <<>>
Some(v) == <<v>>

EmptyDict == [k \in {} |-> 0]

-----------------------------------------------------------------------------
(* HTTP responses *)

\* "https://sso.greenchoice.nl/connect/authorize?client_id=x"
AuthorizeLocation ==
    << "h", "t", "t", "p", "s", ":", "/", "/", "s", "s", "o", ".", "g", "r",
       "e", "e", "n", "c", "h", "o", "i", "c", "e", ".", "n", "l", "/", "c",
       "o", "n", "n", "e", "c", "t", "/", "a", "u", "t", "h", "o", "r", "i",
       "z", "e", "?", "c", "l", "i", "e", "n", "t", "_", "i", "d", "=", "x" >>

\* "https://ssoXgreenchoice.nl/connect/authorize": another host
LookalikeLocation ==
    << "h", "t", "t", "p", "s", ":", "/", "/", "s", "s", "o", "X", "g", "r",
       "e", "e", "n", "c", "h", "o", "i", "c", "e", ".", "n", "l", "/", "c",
       "o", "n", "n", "e", "c", "t", "/", "a", "u", "t", "h", "o", "r", "i",
       "z", "e" >>

\* "https://mijn.greenchoice.nl/elsewhere"
OtherLocation ==
    << "h", "t", "t", "p", "s", ":", "/", "/", "m", "i", "j", "n", ".", "g",
       "r", "e", "e", "n", "c", "h", "o", "i", "c", "e", ".", "n", "l", "/",
       "e", "l", "s", "e", "w", "h", "e", "r", "e" >>

\* "://sso.greenchoice.nl/connect/authorize", the part of the pattern
\* "^.*://sso.greenchoice.nl/connect/authorize.*$" between its two ".*"
AuthorizePattern ==
    << ":", "/", "/", "s", "s", "o", ".", "g", "r", "e", "e", "n", "c", "h",
       "o", "i", "c", "e", ".", "n", "l", "/", "c", "o", "n", "n", "e", "c",
       "t", "/", "a", "u", "t", "h", "o", "r", "i", "z", "e" >>

\* one element of the pattern on one character: "." is any character but a
\* newline, any other element is itself
MatchesChar(p, c) == IF p = "." THEN c # "\n" ELSE c = p

\* the pattern matches the characters of s from place i on
MatchesAt(s, i) ==
    \A k \in 1..Len(AuthorizePattern) :
        MatchesChar(AuthorizePattern[k], s[i + k - 1])

\* re.search("^.*://sso.greenchoice.nl/connect/authorize.*$", location): the
\* pattern occurs in the first line of the string, and nothing follows that
\* line but one newline that ends the string
MatchesAuthorize(location) ==
    \E i \in 1..(Len(location) - Len(AuthorizePattern) + 1) :
        /\ \A k \in 1..(i - 1) : location[k] # "\n"
        /\ MatchesAt(location, i)
        /\ \A k \in (i + Len(AuthorizePattern))..Len(location) :
              location[k] = "\n" => k = Len(location)

\* entries a redirect history is made of: status code and Location header
HistoryEntries ==
    { [status_code |-> 302, location |-> Some(AuthorizeLocation)],
      [status_code |-> 302, location |-> Some(LookalikeLocation)],
      [status_code |-> 302, location |-> Some(OtherLocation)],
      [status_code |-> 302, location |-> None],
      [status_code |-> 307, location |-> Some(AuthorizeLocation)] }

Redirect(status_code, location) == [status_code |-> status_code, location |-> location]

\* the redirect histories the portal answers with: none, one redirect of each
\* kind, and chains in which the entry that matters is not the first
Histories ==
    { <<>> } \cup { <<e>> : e \in HistoryEntries } \cup
    { << Redirect(307, Some(AuthorizeLocation)), Redirect(302, Some(AuthorizeLocation)) >>,
      << Redirect(302, Some(OtherLocation)), Redirect(302, Some(AuthorizeLocation)) >>,
      << Redirect(302, None), Redirect(307, Some(AuthorizeLocation)) >> }

StatusCodes == {200, 403, 404, 500}

Responses == [status_code : StatusCodes, history : Histories]

\* the loop over response.history of request()
RECURSIVE HistoryExpired(_, _)
HistoryExpired(history, i) ==
    IF i > Len(history) THEN FALSE
    ELSE IF history[i].status_code # 302 THEN HistoryExpired(history, i + 1)
    ELSE IF /\ history[i].location # None
            /\ MatchesAuthorize(history[i].location[1]) THEN TRUE
    ELSE HistoryExpired(history, i + 1)

\* session_expired without the history loop: only the 403 check
SessionExpired_StatusOnly(r) == r.status_code = 403

\* session_expired without the 403 check: only the history loop
SessionExpired_HistoryOnly(r) == HistoryExpired(r.history, 1)

\* value of session_expired once the history and the status have been looked at
SessionExpired(r) ==
    IF r.status_code = 403 THEN TRUE ELSE HistoryExpired(r.history, 1)

\* Response.raise_for_status raises HTTPError for 4xx and 5xx
RaisesForStatus(r) == r.status_code >= 400 /\ r.status_code < 600

\* Response.__bool__ is Response.ok
Truthy(r) == ~RaisesForStatus(r)

-----------------------------------------------------------------------------
(* Python dictionaries *)

\* d.get(k)
Get(d, k) == IF k \in DOMAIN d THEN Some(d[k]) ELSE None

-----------------------------------------------------------------------------
(* model.py *)

\* Preferences.from_dict(payload), Rates.from_dict(payload): the class has no
\* attribute from_dict, so the expression raises AttributeError before the
\* payload is looked at
FromDict(class, payload) == [exc |-> "AttributeError"]

ElectricityTariffFields ==
    {"leveringHoog", "leveringLaag", "leveringEnkel", "leveringLaagAllIn",
     "leveringHoogAllIn", "leveringEnkelAllIn", "leveringHoogBtw",
     "leveringLaagBtw", "leveringEnkelBtw", "soortMeter", "terugLeveringEnkel",
     "terugLeveringHoog", "terugLeveringLaag", "terugleverVergoeding",
     "terugleverKostenIncBtw", "terugleverKostenExcBtw", "terugleverKostenBtw",
     "btw", "btwPercentage", "vastrechtPerDagExcBtw", "vastrechtPerDagIncBtw",
     "vastrechtPerDagBtw", "netbeheerPerDagExcBtw", "netbeheerPerDagIncBtw",
     "netbeheerPerDagBtw", "reb", "sde", "capaciteit"}

GasTariffFields ==
    {"levering", "leveringAllIn", "leveringBtw", "btw", "btwPercentage",
     "vastrechtPerDagExcBtw", "vastrechtPerDagIncBtw", "vastrechtPerDagBtw",
     "netbeheerPerDagExcBtw", "netbeheerPerDagIncBtw", "netbeheerPerDagBtw",
     "reb", "sde", "capaciteit"}

-----------------------------------------------------------------------------
(* update_contract_values: the rates query *)

\* truth value of a reference id: None and "" are false
IsSet(v) == v # None /\ v[1] # ""

\* the loop over client_address.get("contracten")
RECURSIVE ScanContracts(_, _, _)
ScanContracts(contracts, i, acc) ==
    IF i > Len(contracts) THEN acc
    ELSE IF Get(contracts[i], "marktsegment") = Some("E")
    THEN ScanContracts(contracts, i + 1,
             [acc EXCEPT !.ref_id_electricity = Get(contracts[i], "refId")])
    ELSE ScanContracts(contracts, i + 1,
             [acc EXCEPT !.ref_id_gas = Get(contracts[i], "refId")])

\* the loop over client_details.get("adressen")
RECURSIVE ScanAddresses(_, _, _, _, _)
ScanAddresses(addresses, i, customer_id, contract_id, acc) ==
    IF i > Len(addresses) \/ acc.exc # "" THEN acc
    ELSE IF /\ Get(addresses[i], "klantnummer") = customer_id
            /\ Get(addresses[i], "overeenkomstId") = contract_id
    THEN IF "contracten" \notin DOMAIN addresses[i]
         THEN [acc EXCEPT !.exc = "TypeError",
                          !.house_number = Get(addresses[i], "huisnummer"),
                          !.zip_code = Get(addresses[i], "postcode")]
         ELSE ScanAddresses(addresses, i + 1, customer_id, contract_id,
                  ScanContracts(addresses[i].contracten, 1,
                      [acc EXCEPT !.house_number = Get(addresses[i], "huisnummer"),
                                  !.zip_code = Get(addresses[i], "postcode")]))
    ELSE ScanAddresses(addresses, i + 1, customer_id, contract_id, acc)

\* the loop over init_config.get("klantgegevens")
RECURSIVE ScanClients(_, _, _, _, _)
ScanClients(clients, i, customer_id, contract_id, acc) ==
    IF i > Len(clients) \/ acc.exc # "" THEN acc
    ELSE IF Get(clients[i], "klantnummer") = customer_id
    THEN IF "adressen" \notin DOMAIN clients[i]
         THEN [acc EXCEPT !.exc = "TypeError"]
         ELSE ScanClients(clients, i + 1, customer_id, contract_id,
                  ScanAddresses(clients[i].adressen, 1, customer_id, contract_id, acc))
    ELSE ScanClients(clients, i + 1, customer_id, contract_id, acc)

NoAddress ==
    [exc |-> "", house_number |-> Some(""), zip_code |-> Some(""),
     ref_id_electricity |-> Some(""), ref_id_gas |-> Some("")]

\* req_data with the gas ids added under the condition of the electricity ids
ReqData_GasWithElectricity(found, contract_id) ==
    <<  <<"HouseNumber", found.house_number>>, <<"ZipCode", found.zip_code>> >>
    \o (IF IsSet(found.ref_id_electricity)
        THEN << <<"ReferenceIdElectricity", found.ref_id_electricity>>,
                <<"AgreementIdElectricity", contract_id>> >>
        ELSE <<>>)
    \o (IF IsSet(found.ref_id_electricity)
        THEN << <<"ReferenceIdGas", found.ref_id_gas>>,
                <<"AgreementIdGas", contract_id>> >>
        ELSE <<>>)

\* req_data, a dict in insertion order: a sequence of <<key, value>>
ReqData(found, contract_id) ==
    <<  <<"HouseNumber", found.house_number>>, <<"ZipCode", found.zip_code>> >>
    \o (IF IsSet(found.ref_id_electricity)
        THEN << <<"ReferenceIdElectricity", found.ref_id_electricity>>,
                <<"AgreementIdElectricity", contract_id>> >>
        ELSE <<>>)
    \o (IF IsSet(found.ref_id_gas)
        THEN << <<"ReferenceIdGas", found.ref_id_gas>>,
                <<"AgreementIdGas", contract_id>> >>
        ELSE <<>>)

\* str(v) as urlencode and the f-string apply it
Str(v) == IF v = None THEN "None" ELSE v[1]

\* urlencode(req_data): the key=value pairs in order, values as strings
UrlEncode(req_data) == [i \in 1..Len(req_data) |-> <<req_data[i][1], Str(req_data[i][2])>>]

\* lines 286-329: the rates endpoint built from the init payload, or the
\* exception a missing nested field raises
RatesRequest(config) ==
    IF "profile" \notin DOMAIN config
    THEN [exc |-> "AttributeError"]
    ELSE IF "voorkeursOvereenkomst" \notin DOMAIN config.profile
    THEN [exc |-> "AttributeError"]
    ELSE LET details == config.profile.voorkeursOvereenkomst
             customer_id == Get(details, "klantnummer")
             contract_id == Get(details, "overeenkomstId")
         IN  IF "klantgegevens" \notin DOMAIN config
             THEN [exc |-> "TypeError"]
             ELSE LET found == ScanClients(config.klantgegevens, 1,
                                           customer_id, contract_id, NoAddress)
                  IN  IF found.exc # "" THEN [exc |-> found.exc]
                      ELSE [exc |-> "",
                            endpoint |-> [path |-> "/api/v2/Rates/",
                                          args |-> <<Str(customer_id)>>,
                                          query |-> UrlEncode(ReqData(found, contract_id))]]

\* lines 333-334: unwrap the "huidig" sub-object
Unwrap(pricing) == IF "huidig" \in DOMAIN pricing THEN pricing.huidig ELSE pricing

\* _validate_response: the dict handed on for a returned value and its body
ValidateResponse(returned, body) ==
    IF returned = None \/ ~Truthy(returned[1]) THEN EmptyDict
    ELSE IF ~body.json THEN EmptyDict
    ELSE body.val

-----------------------------------------------------------------------------
(* The payloads the portal answers with *)

Body(json, val) == [json |-> json, val |-> val]

PreferencesOk ==
    [accountId |-> "uuid",
     subject |-> [customerNumber |-> "2222", LeveringsStatus |-> "1",
                  agreementId |-> "1111"]]
PreferencesNoSubject == [accountId |-> "uuid"]

PreferencesBodies ==
    { Body(TRUE, PreferencesOk), Body(TRUE, PreferencesNoSubject),
      Body(FALSE, PreferencesNoSubject) }

Reading(date, normal, offPeak, feedIn, offPeakFeedIn, gas) ==
    [readingDate |-> date, normalConsumption |-> normal,
     offPeakConsumption |-> offPeak, normalFeedIn |-> feedIn,
     offPeakFeedIn |-> offPeakFeedIn, gas |-> gas]

Month(month, readings) == [month |-> month, readings |-> readings]

Product(productType, months) == [productType |-> productType, months |-> months]

StroomProduct ==
    Product("Stroom",
        << Month(4, << Reading(406, Some(40), Some(50), Some(4), Some(5), None) >>),
           Month(6, << >>),
           Month(5, << Reading(506, Some(50), Some(60), Some(5), Some(6), None),
                       Reading(501, Some(45), Some(55), Some(4), Some(5), None) >>) >>)

GasProduct ==
    Product("Gas",
        << Month(5, << Reading(501, None, None, None, None, Some(90)),
                       Reading(506, None, None, None, None, Some(100)) >>),
           Month(4, << Reading(406, None, None, None, None, Some(80)) >>) >>)

\* a reading of the electricity product whose sub-values are null
NullProduct ==
    Product("Stroom",
        << Month(5, << Reading(506, None, None, None, None, None) >>) >>)

MeterFull == [productTypes |-> << StroomProduct, GasProduct >>]
MeterWithoutGas == [productTypes |-> << StroomProduct >>]
MeterNull == [productTypes |-> << NullProduct >>]
\* the meter readings the portal holds: with and without gas product, and
\* an electricity reading whose sub-values are null
MeterPayloads == { MeterFull, MeterWithoutGas, MeterNull }

Contract(marktsegment, refId) == [marktsegment |-> marktsegment, refId |-> refId]

Address(overeenkomstId, huisnummer, contracten) ==
    [klantnummer |-> "2222", overeenkomstId |-> overeenkomstId,
     huisnummer |-> huisnummer, postcode |-> "1234AB", contracten |-> contracten]

InitConfig(adressen) ==
    [profile |-> [voorkeursOvereenkomst |->
                     [klantnummer |-> "2222", overeenkomstId |-> "1111"]],
     klantgegevens |-> << [klantnummer |-> "3333", adressen |-> << >>],
                          [klantnummer |-> "2222", adressen |-> adressen] >>]

InitFull ==
    InitConfig(<< Address("9999", "7", << Contract("E", "777") >>),
                  Address("1111", "1", << Contract("E", "12345"),
                                          Contract("G", "54321") >>) >>)
InitWithoutGas ==
    InitConfig(<< Address("1111", "1", << Contract("E", "12345") >>) >>)
InitNoProfile == [klantgegevens |-> << >>]
InitNoClients ==
    [profile |-> [voorkeursOvereenkomst |->
                     [klantnummer |-> "2222", overeenkomstId |-> "1111"]]]

InitBodies ==
    { Body(TRUE, InitFull), Body(TRUE, InitWithoutGas), Body(TRUE, InitNoProfile),
      Body(TRUE, InitNoClients), Body(FALSE, InitNoProfile) }

ElectricityTariff(single, low, high, return) ==
    [f \in ElectricityTariffFields |->
        CASE f = "leveringEnkelAllIn" -> single
          [] f = "leveringLaagAllIn" -> low
          [] f = "leveringHoogAllIn" -> high
          [] f = "terugleverVergoeding" -> return
          [] OTHER -> 0]

GasTariff(price) ==
    [f \in GasTariffFields |-> IF f = "leveringAllIn" THEN price ELSE 0]

Rates(stroom, gas) ==
    [beginDatum |-> 101, eindDatum |-> 1231, stroom |-> stroom, gas |-> gas]

RatesFull == Rates(Some(ElectricityTariff(25, 20, 30, 8)), Some(GasTariff(80)))
RatesWithoutGas == Rates(Some(ElectricityTariff(25, 20, 30, 8)), None)
RatesNothing == Rates(None, None)
\* an electricity tariff that lacks a required field
RatesBroken ==
    Rates(Some([f \in ElectricityTariffFields \ {"sde"} |-> 0]), None)
RatesError == [status |-> 400]

RatesBodies ==
    { Body(TRUE, RatesFull), Body(TRUE, RatesWithoutGas), Body(TRUE, RatesNothing),
      Body(TRUE, RatesBroken), Body(TRUE, RatesError), Body(FALSE, RatesError) }

TariffsOld == Rates(Some(ElectricityTariff(35, 30, 40, 9)), Some(GasTariff(70)))
TariffsWrapped == [huidig |-> TariffsOld, status |-> 200]

TariffsBodies ==
    { Body(TRUE, TariffsWrapped), Body(TRUE, TariffsOld), Body(TRUE, RatesError),
      Body(FALSE, RatesError) }

-----------------------------------------------------------------------------
(* Endpoints *)

Endpoint(path, args, query) == [path |-> path, args |-> args, query |-> query]

NoEndpoint == Endpoint("", << >>, << >>)
PreferencesEndpoint == Endpoint("/api/v2/Preferences/", << >>, << >>)
InitEndpoint == Endpoint("/microbus/init", << >>, << >>)
TariffsEndpoint == Endpoint("/api/tariffs", << >>, << >>)

-----------------------------------------------------------------------------
(* sensor.py: the sensors and the measurement date each one reads *)

\* the keys of sensor_infos
SensorNames ==
    {"electricity_consumption_high", "electricity_consumption_low",
     "electricity_consumption_total", "electricity_return_high",
     "electricity_return_low", "electricity_return_total",
     "electricity_price_low", "electricity_price_high",
     "electricity_price_single", "electricity_return_price",
     "gas_consumption", "gas_price"}

\* "electricity" in measurement_type, on the sensor names
ContainsElectricity(measurement_type) ==
    measurement_type \in SensorNames \ {"gas_consumption", "gas_price"}

\* GreenchoiceSensor._measurement_date_key
MeasurementDateKey(measurement_type) ==
    IF ContainsElectricity(measurement_type)
    THEN "measurement_date_electricity"
    ELSE "measurement_date_gas"

-----------------------------------------------------------------------------
(* request() *)

\* a request sent through __session_request on the session self.session
\* names; usable tells whether the answer held what the handshake reads from it
Sent(request, on, usable) == [request |-> request, session |-> on, usable |-> usable]

\* lines 110-112: the existing session is closed
CloseSession(closed_sessions, old) == closed_sessions \cup {old}

\* line 113 left out: the handshake goes through the existing session
NewSession_Reused(old) == old

\* line 113: requests.Session() is an object that did not exist before
NewSession(old) == old + 1

\* self.request(method, endpoint) is entered with the default _retry_count
Call(ep) ==
    /\ rpc' = "send"
    /\ endpoint' = ep
    /\ retry' = RetryCount
    /\ response' = None
    /\ ret' = None
    /\ sends' = 0
    /\ logins' = 0
    /\ frame_sends' = 0
    /\ frame_logins' = 0
    /\ redirected' = FALSE
    /\ sent_on' = 0
    /\ handshake' = << >>
    /\ UNCHANGED <<session, closed>>

\* the outermost request() call returns v; n is the number of target
\* requests its innermost frame has sent
Return(v, n) ==
    /\ rpc' = "returned"
    /\ ret' = v
    /\ frame_sends' = n
    /\ UNCHANGED <<endpoint, retry, frame_logins>>

\* the HTTPError handler without the _retry_count == 0 check and without the
\* decrement: every failure is retried
Retry_Unbounded(r, n) ==
    /\ rpc' = "send"
    /\ response' = None
    /\ frame_sends' = 0
    /\ frame_logins' = 0
    /\ handshake' = << >>
    /\ UNCHANGED <<endpoint, ret, retry>>

\* except requests.HTTPError: None when _retry_count is 0, else the
\* recursive call self.request(method, endpoint, data, _retry_count - 1)
Retry(r, n) ==
    IF retry = 0 THEN
        /\ Return(None, n)
        /\ response' = Some(r)
        /\ UNCHANGED handshake
    ELSE
        /\ rpc' = "send"
        /\ retry' = retry - 1
        /\ response' = None
        /\ frame_sends' = 0
        /\ frame_logins' = 0
        /\ handshake' = << >>
        /\ UNCHANGED <<endpoint, ret>>

\* lines 175-190 without raise_for_status: every response is returned
Finish_WithoutRaise(r, n) ==
    Return(Some(r), n) /\ response' = Some(r) /\ UNCHANGED handshake

\* lines 175-190 on the frame's last response r: a 404 is handed back, any
\* other error status raises HTTPError, anything else is returned
Finish(r, n) ==
    IF r.status_code = 404
    THEN Return(Some(r), n) /\ response' = Some(r) /\ UNCHANGED handshake
    ELSE IF RaisesForStatus(r) THEN Retry(r, n)
    ELSE Return(Some(r), n) /\ response' = Some(r) /\ UNCHANGED handshake

\* line 143: the target request is sent and the portal answers r
Send(r) ==
    /\ rpc = "send"
    /\ rpc' = "received"
    /\ response' = Some(r)
    /\ sends' = sends + 1
    /\ frame_sends' = frame_sends + 1
    /\ redirected' = IF sends = 0 THEN HistoryExpired(r.history, 1) ELSE redirected
    /\ sent_on' = session
    /\ UNCHANGED <<endpoint, retry, ret, logins, frame_logins, handshake>>
    /\ UNCHANGED <<session, closed>>
    /\ UNCHANGED updateVars

\* lines 148-179: session_expired is decided from the response; an expired
\* session is refreshed, any other response goes on to the status checks.
\* The stale response is never read again (the replay assigns a new one), so
\* it is dropped here.
Decide ==
    /\ rpc = "received"
    /\ IF SessionExpired(response[1])
       THEN /\ rpc' = "login_get"
            /\ response' = None
            /\ UNCHANGED <<endpoint, retry, ret, frame_sends, frame_logins,
                           handshake>>
       ELSE Finish(response[1], frame_sends)
    /\ UNCHANGED <<sends, logins, redirected, session, closed, sent_on>>
    /\ UNCHANGED updateVars

\* _activate_session, lines 109-120: the session is replaced, the portal
\* root is fetched and the anti-forgery token is read from the login page;
\* without the token input _get_verification_token raises AttributeError,
\* which nothing catches
LoginGet(token_found) ==
    /\ rpc = "login_get" /\ pc # "raised"
    /\ logins' = logins + 1
    /\ frame_logins' = frame_logins + 1
    /\ closed' = CloseSession(closed, session)
    /\ session' = NewSession(session)
    /\ handshake' = << Sent("GET /", session', token_found) >>
    /\ IF token_found
       THEN /\ rpc' = "login_post"
            /\ UNCHANGED <<pc, exc>>
       ELSE /\ pc' = "raised"
            /\ exc' = "AttributeError"
            /\ UNCHANGED rpc
    /\ UNCHANGED <<endpoint, retry, response, ret, sends, frame_sends, redirected,
                   sent_on>>
    /\ UNCHANGED <<op, calls, result, portal_meter, preferences_json,
                   init_config, pricing_json, pricing_details>>

\* a LoginError handled like an HTTPError: the request is attempted again
LoginFailed_Retried ==
    /\ rpc' = "send"
    /\ retry' = IF retry = 0 THEN 0 ELSE retry - 1
    /\ frame_sends' = 0
    /\ frame_logins' = 0
    /\ UNCHANGED <<endpoint, ret>>

\* lines 168-172: except LoginError: return None
LoginFailed == Return(None, frame_sends)

\* the hidden inputs _get_oidc_params looks for in the answer to the credentials
OidcFields == {"code", "scope", "state", "session_state"}

\* the answers to the credentials: the inputs the page holds, and whether the
\* scope input has a value attribute
LoginPages == [found : SUBSET OidcFields, scope_value : BOOLEAN]

\* _get_oidc_params, lines 48-64: an input that is missing raises LoginError;
\* with the four inputs on the page, attrs.get("value") of a scope input
\* without value is None and None.replace raises AttributeError; the values
\* of the other inputs are taken as they are
GetOidcParams(page) ==
    IF page.found # OidcFields THEN [exc |-> "LoginError"]
    ELSE IF ~page.scope_value THEN [exc |-> "AttributeError"]
    ELSE [exc |-> ""]

\* the four inputs are on the page
OidcFound(page) == page.found = OidcFields

\* _get_oidc_params without lines 56-57: missing OIDC fields raise nothing and
\* the handshake goes on to /signin-oidc
LoginPost_IgnoresMissing(page) ==
    /\ rpc = "login_post" /\ pc # "raised"
    /\ rpc' = "login_oidc"
    /\ handshake' = Append(handshake, Sent("POST login", session, OidcFound(page)))
    /\ UNCHANGED <<endpoint, retry, ret, frame_sends, frame_logins>>
    /\ UNCHANGED <<response, sends, logins, redirected, session, closed, sent_on>>
    /\ UNCHANGED updateVars

\* lines 123-135: the credentials are posted and the OIDC fields are read from
\* the answer; LoginError is caught by request() (line 168), AttributeError
\* by nothing: it leaves request() and the method the caller invoked
LoginPost(page) ==
    /\ rpc = "login_post" /\ pc # "raised"
    /\ LET oidc_params == GetOidcParams(page)
       IN  IF oidc_params.exc = ""
           THEN /\ rpc' = "login_oidc"
                /\ UNCHANGED <<endpoint, retry, ret, frame_sends, frame_logins>>
                /\ UNCHANGED <<pc, exc>>
           ELSE IF oidc_params.exc = "LoginError"
           THEN /\ LoginFailed
                /\ UNCHANGED <<pc, exc>>
           ELSE /\ pc' = "raised"
                /\ exc' = oidc_params.exc
                /\ UNCHANGED <<rpc, endpoint, retry, ret, frame_sends,
                               frame_logins>>
    /\ handshake' = Append(handshake, Sent("POST login", session, OidcFound(page)))
    /\ UNCHANGED <<response, sends, logins, redirected, session, closed, sent_on>>
    /\ UNCHANGED <<op, calls, result, portal_meter, preferences_json,
                   init_config, pricing_json, pricing_details>>

\* line 136: the OIDC fields are posted to /signin-oidc
LoginOidc ==
    /\ rpc = "login_oidc"
    /\ rpc' = "replay"
    /\ handshake' = Append(handshake, Sent("POST /signin-oidc", session, TRUE))
    /\ UNCHANGED <<endpoint, retry, response, ret, sends, logins, frame_sends,
                   frame_logins, redirected, session, closed, sent_on>>
    /\ UNCHANGED updateVars

\* line 173: the original request is sent again and the portal answers r
Replay(r) ==
    /\ rpc = "replay"
    /\ sends' = sends + 1
    /\ sent_on' = session
    /\ Finish(r, frame_sends + 1)
    /\ UNCHANGED <<logins, redirected, session, closed>>
    /\ UNCHANGED updateVars

-----------------------------------------------------------------------------
(* update() and update_contract_values() *)

\* line 210: self.result = {}
FreshResult(old) == EmptyDict

\* an exception leaves the method the caller invoked
Fail(e) ==
    /\ pc' = "raised"
    /\ exc' = e
    /\ UNCHANGED <<op, calls, result, portal_meter>>
    /\ UNCHANGED requestVars

\* the caller invokes update(): the result is rebuilt and update_usage_values
\* asks for the preferences (lines 210-220)
Update ==
    /\ pc \in {"idle", "raised"}
    /\ calls < MaxCalls
    /\ calls' = calls + 1
    /\ op' = "update"
    /\ pc' = "preferences"
    /\ exc' = ""
    /\ result' = FreshResult(result)
    /\ preferences_json' = EmptyDict
    /\ init_config' = EmptyDict
    /\ pricing_json' = EmptyDict
    /\ pricing_details' = EmptyDict
    /\ Call(PreferencesEndpoint)
    /\ UNCHANGED portal_meter

\* lines 218-225: the answer to the preferences request goes through
\* _validate_response and Preferences.from_dict is evaluated; a
\* ValidationError would make update_usage_values return and update() go on
\* with update_contract_values (lines 225, 212, 284, 206), any other
\* exception leaves update()
AfterPreferences(body) ==
    /\ pc = "preferences" /\ rpc = "returned"
    /\ preferences_json' = ValidateResponse(ret, body)
    /\ LET preferences == FromDict("Preferences", ValidateResponse(ret, body))
       IN  IF preferences.exc = "ValidationError"
           THEN /\ pc' = "init"
                /\ Call(InitEndpoint)
                /\ UNCHANGED <<op, calls, exc, result, portal_meter>>
           ELSE Fail(preferences.exc)
    /\ UNCHANGED <<init_config, pricing_json, pricing_details>>

\* the caller invokes update_contract_values(self.result): microbus_init asks
\* for the init payload (lines 284, 206)
UpdateContractValues ==
    /\ pc \in {"idle", "raised"}
    /\ calls < MaxCalls
    /\ calls' = calls + 1
    /\ op' = "update_contract_values"
    /\ pc' = "init"
    /\ exc' = ""
    /\ preferences_json' = EmptyDict
    /\ init_config' = EmptyDict
    /\ pricing_json' = EmptyDict
    /\ pricing_details' = EmptyDict
    /\ Call(InitEndpoint)
    /\ UNCHANGED <<result, portal_meter>>

\* lines 284-329: the init payload is walked and the rates asked for
AfterInit(body) ==
    /\ pc = "init" /\ rpc = "returned"
    /\ init_config' = ValidateResponse(ret, body)
    /\ LET rates_request == RatesRequest(ValidateResponse(ret, body))
       IN  IF rates_request.exc # ""
           THEN Fail(rates_request.exc)
           ELSE /\ pc' = "rates"
                /\ Call(rates_request.endpoint)
                /\ UNCHANGED <<op, calls, exc, result, portal_meter>>
    /\ UNCHANGED <<preferences_json, pricing_json, pricing_details>>

\* lines 332-336: the answer goes through _validate_response, its "huidig"
\* sub-object is taken when present, and Rates.from_dict is evaluated, whose
\* exception leaves update_contract_values
Prices(body) ==
    /\ pricing_json' = ValidateResponse(ret, body)
    /\ pricing_details' = Unwrap(ValidateResponse(ret, body))
    /\ Fail(FromDict("Rates", Unwrap(ValidateResponse(ret, body))).exc)
    /\ UNCHANGED <<preferences_json, init_config>>

\* lines 329-331: response.status_code is read (AttributeError on None); a 404
\* makes update_contract_values ask the legacy endpoint
AfterRates(body) ==
    /\ pc = "rates" /\ rpc = "returned"
    /\ IF ret = None
       THEN /\ Fail("AttributeError")
            /\ UNCHANGED <<preferences_json, init_config, pricing_json,
                           pricing_details>>
       ELSE IF ret[1].status_code = 404
       THEN /\ pc' = "tariffs"
            /\ Call(TariffsEndpoint)
            /\ UNCHANGED <<op, calls, exc, result, portal_meter, preferences_json,
                           init_config, pricing_json, pricing_details>>
       ELSE Prices(body)

\* lines 331-336 on the answer of the legacy endpoint
AfterTariffs(body) ==
    /\ pc = "tariffs" /\ rpc = "returned"
    /\ Prices(body)

-----------------------------------------------------------------------------
(* The client after construction, and its steps *)

\* the client after __init__, whose _activate_session call installed session 1
Constructed ==
    /\ pc = "idle"
    /\ op = ""
    /\ calls = 0
    /\ exc = ""
    /\ result = EmptyDict
    /\ rpc = "none"
    /\ endpoint = NoEndpoint
    /\ retry = RetryCount
    /\ response = None
    /\ ret = None
    /\ sends = 0
    /\ logins = 0
    /\ frame_sends = 0
    /\ frame_logins = 0
    /\ redirected = FALSE
    /\ session = 1
    /\ closed = {}
    /\ sent_on = 0
    /\ handshake = << >>
    /\ preferences_json = EmptyDict
    /\ init_config = EmptyDict
    /\ pricing_json = EmptyDict
    /\ pricing_details = EmptyDict

Init ==
    /\ Constructed
    /\ portal_meter = MeterFull

Next ==
    \/ Update
    \/ UpdateContractValues
    \/ \E r \in Responses : Send(r)
    \/ Decide
    \/ \E token_found \in BOOLEAN : LoginGet(token_found)
    \/ \E page \in LoginPages : LoginPost(page)
    \/ LoginOidc
    \/ \E r \in Responses : Replay(r)
    \/ \E body \in PreferencesBodies : AfterPreferences(body)
    \/ \E body \in InitBodies : AfterInit(body)
    \/ \E body \in RatesBodies : AfterRates(body)
    \/ \E body \in TariffsBodies : AfterTariffs(body)

Spec == Init /\ [][Next]_vars

-----------------------------------------------------------------------------
(* update() against a portal that holds generated meter readings: every      *)
(* single-product payload within the bounds, and the payloads above          *)

MonthNumbers == {4, 5}
ReadingDates == {501, 506}
ProductTypes == {"Stroom", "Gas"}

\* the reading at place j of month entry i: every sub-value is the tag 10i+j
GeneratedReading(date, i, j) ==
    LET tag == Some(10 * i + j)
    IN  Reading(date, tag, tag, tag, tag, tag)

DateSeqs == UNION { [1..n -> ReadingDates] : n \in 0..MaxReadings }

MonthShapes == UNION { [1..n -> MonthNumbers \X DateSeqs] : n \in 0..MaxMonths }

GeneratedMonths(shape) ==
    [i \in 1..Len(shape) |->
        Month(shape[i][1],
              [j \in 1..Len(shape[i][2]) |-> GeneratedReading(shape[i][2][j], i, j)])]

GeneratedMeters ==
    { [productTypes |-> << Product(t, GeneratedMonths(shape)) >>] :
        t \in ProductTypes, shape \in MonthShapes }

\* the portal answers the target request at once, with or without success
PlainResponses == [status_code : {200, 500}, history : { << >> }]

InitUsage ==
    /\ Constructed
    /\ portal_meter \in GeneratedMeters \cup MeterPayloads

NextUsage ==
    \/ Update
    \/ \E r \in PlainResponses : Send(r)
    \/ Decide
    \/ \E body \in PreferencesBodies : AfterPreferences(body)

SpecUsage == InitUsage /\ [][NextUsage]_vars

(* The rates query on generated init payloads: update_contract_values from  *)
(* line 286 on, for the init payloads within the bounds. The market segment *)
(* of a contract is E or G (line 312), every contract has a reference id,   *)
(* and customer number and agreement id identify an address of the client.  *)

\* customer number and agreement id of an address: those of the active
\* contract, another agreement of the customer, another customer
AddressOwners == { <<"2222", "1111">>, <<"2222", "9999">>, <<"3333", "1111">> }
MarketSegments == {"E", "G"}

SegmentSeqs == UNION { [1..n -> MarketSegments] : n \in 0..MaxContracts }

AddressShapes == AddressOwners \X SegmentSeqs

\* the address at place a: house number, postal code and reference ids carry
\* the place
GeneratedAddress(shape, a) ==
    [klantnummer |-> shape[1][1], overeenkomstId |-> shape[1][2],
     huisnummer |-> ToString(a), postcode |-> "P" \o ToString(a),
     contracten |-> [j \in 1..Len(shape[2]) |->
                        Contract(shape[2][j], ToString(10 * a + j))]]

InitShapes ==
    { shape \in UNION { [1..n -> AddressShapes] : n \in 0..MaxAddresses } :
        Cardinality({ a \in 1..Len(shape) :
                        shape[a][1] = <<"2222", "1111">> }) <= 1 }

GeneratedInits ==
    { InitConfig([a \in 1..Len(shape) |-> GeneratedAddress(shape[a], a)]) :
        shape \in InitShapes }

GeneratedInitBodies == { Body(TRUE, config) : config \in GeneratedInits }

InitRates ==
    /\ pc = "init"
    /\ op = "update_contract_values"
    /\ calls = 1
    /\ exc = ""
    /\ result = EmptyDict
    /\ rpc = "returned"
    /\ endpoint = InitEndpoint
    /\ retry = RetryCount
    /\ response = Some([status_code |-> 200, history |-> << >>])
    /\ ret = Some([status_code |-> 200, history |-> << >>])
    /\ sends = 1
    /\ logins = 0
    /\ frame_sends = 1
    /\ frame_logins = 0
    /\ redirected = FALSE
    /\ session = 1
    /\ closed = {}
    /\ sent_on = 1
    /\ handshake = << >>
    /\ portal_meter = MeterFull
    /\ preferences_json = EmptyDict
    /\ init_config = EmptyDict
    /\ pricing_json = EmptyDict
    /\ pricing_details = EmptyDict

NextRates ==
    /\ pc = "init"
    /\ \E body \in GeneratedInitBodies : AfterInit(body)

SpecRates == InitRates /\ [][NextRates]_vars

-----------------------------------------------------------------------------
(* Properties of request() *)

\* a request() call is in progress, between its entry and its return
InRequest ==
    /\ pc # "raised"
    /\ rpc \in {"send", "received", "login_get", "login_post", "login_oidc", "replay"}

\* the number of the attempt (request() frame) in progress
Attempt == RetryCount - retry + 1

\* C1 as stated: when the first response of a request() call has a redirect
\* to the authorize endpoint in its history, the whole call makes exactly one
\* login handshake and exactly one replay, whatever the replay answers: once
\* the replay is sent (the second target request of the call), no further
\* target request and no further handshake belong to the call
C1_Original ==
    (redirected /\ sends >= 2) => (logins = 1 /\ sends = 2)

\* C1 amended: the attempt that receives such a response makes exactly one
\* login handshake and, when the handshake succeeds, exactly one replay; no
\* attempt logs in or replays more than once; if the replay answers 404 or a
\* non-error status the call returns with that one login and one replay; a
\* failed handshake returns at once without a replay
C1_OneLoginOneReplayPerAttempt ==
    /\ frame_logins <= 1
    /\ frame_sends <= 2
    /\ frame_sends = 2 => frame_logins = 1
    /\ rpc = "replay" => (frame_logins = 1 /\ frame_sends = 1)
    /\ (rpc = "returned" /\ redirected) => logins >= 1
    /\ (rpc = "returned" /\ redirected /\ Attempt = 1) =>
          /\ logins = 1
          /\ ret # None => sends = 2
          /\ ret = None => sends = 1

\* a call whose first response was redirected to the authorize endpoint has
\* returned the replayed response after one login and one replay
C1_Witness ==
    /\ rpc = "returned" /\ redirected /\ Attempt = 1
    /\ ret # None /\ logins = 1 /\ sends = 2


\* steps request() can still take in its current frame, plus those of the
\* frames _retry_count still allows: a variant of the call
Rank ==
    IF pc = "raised" THEN 0
    ELSE retry * 10 +
         (CASE rpc = "send" -> 6
            [] rpc = "received" -> 5
            [] rpc = "login_get" -> 4
            [] rpc = "login_post" -> 3
            [] rpc = "login_oidc" -> 2
            [] rpc = "replay" -> 1
            [] OTHER -> 0)

C3_Counts ==
    /\ retry \in 0..RetryCount
    /\ Attempt <= 3
    /\ frame_sends <= 2 /\ frame_logins <= 1
    /\ sends <= 2 * Attempt /\ logins <= Attempt
    /\ sends <= 6 /\ logins <= 3
    \* a new attempt follows a failed one: every earlier attempt sent the target
    /\ rpc # "none" => sends >= Attempt - (IF rpc = "send" THEN 1 ELSE 0)
    \* the last attempt failed: None is returned
    /\ (/\ rpc = "returned" /\ retry = 0 /\ response # None
        /\ RaisesForStatus(response[1]) /\ response[1].status_code # 404) => ret = None

C3_Step ==
    InRequest => /\ Rank' < Rank
                 /\ retry' \in {retry, retry - 1}
                 /\ retry' = retry - 1 => rpc' = "send"

\* C3: every request() call terminates (each of its steps lowers a variant);
\* it makes at most 3 attempts, each sending the target at most twice and
\* logging in at most once, so at most 6 target requests and 3 handshakes per
\* call; when the last attempt fails with an error status other than 404,
\* None is returned
C3_TerminatesWithinThreeAttempts == []C3_Counts /\ [][C3_Step]_vars

\* all three attempts were redirected, logged in, replayed and failed
C3_Witness ==
    /\ rpc = "returned" /\ ret = None /\ retry = 0
    /\ sends = 6 /\ logins = 3

\* some entry of the history has status 302 and a Location at the authorize
\* endpoint of the identity provider
Has302ToAuthorize(history) ==
    \E i \in 1..Len(history) :
        /\ history[i].status_code = 302
        /\ history[i].location = Some(AuthorizeLocation)

\* some entry of the history has a redirect status (3xx) and a Location at
\* the authorize endpoint
HasRedirectToAuthorize(history) ==
    \E i \in 1..Len(history) :
        /\ history[i].status_code \in 300..399
        /\ history[i].location = Some(AuthorizeLocation)

\* the locations in which "://sso", one character, "greenchoice", one
\* character and "nl/connect/authorize" follow one another
PatternLocations == { AuthorizeLocation, LookalikeLocation }

\* some entry of the history has status 302 and such a Location
Has302ToPattern(history) ==
    \E i \in 1..Len(history) :
        /\ history[i].status_code = 302
        /\ history[i].location # None
        /\ history[i].location[1] \in PatternLocations

\* C4 as stated: a received response starts a login handshake if and only if
\* its history has an entry with a redirect status and a Location at the
\* authorize endpoint, or its status is 403
C4_Original ==
    [][rpc = "received" =>
          ((rpc' = "login_get") <=>
              (\/ HasRedirectToAuthorize(response[1].history)
               \/ response[1].status_code = 403))]_vars

\* C4 amended: a received response starts a login handshake if and only if
\* its history has an entry with status 302 and a Location that holds
\* "://sso", any character, "greenchoice", any character and
\* "nl/connect/authorize" in a row, or its status is 403; a handshake starts
\* in no other way
C4_ExpiredIff302OrForbidden ==
    [][/\ rpc = "received" =>
            ((rpc' = "login_get") <=>
                (\/ Has302ToPattern(response[1].history)
                 \/ response[1].status_code = 403))
       /\ logins' > logins => (rpc = "login_get" /\ logins' = logins + 1)
       /\ (rpc' = "login_get" /\ rpc # "login_get") => rpc = "received"]_vars

\* a response redirected to the authorize endpoint with status 307 only
\* was returned without a login handshake
C4_Witness ==
    /\ rpc = "returned" /\ ret # None /\ logins = 0 /\ sends = 1
    /\ ret[1].status_code = 200
    /\ HasRedirectToAuthorize(ret[1].history)
    /\ ~Has302ToAuthorize(ret[1].history)

\* the step reads an answer to the credentials from which one of the four
\* OIDC fields is missing
OidcFieldMissing ==
    /\ rpc = "login_post" /\ pc # "raised"
    /\ Len(handshake') = 2 /\ ~handshake'[2].usable

\* C5: when the handshake started by request() fails with LoginError (one of
\* the four OIDC fields is missing from the answer to the credentials),
\* request() returns None at once: nothing is replayed, no further attempt is
\* made and nothing is raised; a None returned while attempts are left comes
\* from such a failure only
C5_LoginFailureReturnsNone ==
    /\ [][OidcFieldMissing =>
             /\ rpc' = "returned" /\ ret' = None
             /\ sends' = sends /\ logins' = logins /\ retry' = retry
             /\ pc' = pc /\ exc' = "" /\ result' = result]_vars
    /\ []((rpc = "returned" /\ ret = None /\ retry > 0) =>
             (frame_logins = 1 /\ frame_sends = 1))

\* a handshake failed in the first attempt and request() returned None
C5_Witness ==
    /\ rpc = "returned" /\ ret = None /\ retry = RetryCount
    /\ logins = 1 /\ sends = 1 /\ pc # "raised"

-----------------------------------------------------------------------------
(* Properties of update() and update_contract_values() *)

\* update() has ended: it returned a mapping, or an exception left it
UpdateEnded == op = "update" /\ pc \in {"done", "raised"}

\* update() has returned its mapping
UpdateReturned == op = "update" /\ pc = "done" /\ exc = ""

\* the preferences request of the call was answered by valid preferences
PreferencesServed ==
    /\ endpoint = PreferencesEndpoint /\ rpc = "returned"
    /\ "subject" \in DOMAIN preferences_json

\* C2 as stated: update() never raises to its caller, whatever its requests
\* yield (no response, 404, invalid JSON, a payload that fails validation,
\* missing nested fields, a valid payload). The crashes of the login
\* handshake (a login page without token, a scope input without value) are
\* left aside: no exception leaves update() from any other place.
C2_NeverRaises ==
    (op = "update" /\ pc = "raised") => rpc \in {"login_get", "login_post"}

PriceKeys ==
    {"electricity_price_single", "electricity_price_low", "electricity_price_high",
     "electricity_return_price", "gas_price"}

ElectricityUsageKeys ==
    {"electricity_consumption_low", "electricity_consumption_high",
     "electricity_consumption_total", "electricity_return_low",
     "electricity_return_high", "electricity_return_total",
     "measurement_date_electricity"}

GasUsageKeys == {"gas_consumption", "measurement_date_gas"}

\* the mapping m holds exactly the price keys of the tariffs t, with t's values
HoldsPricesOf(m, t) ==
    /\ DOMAIN m \cap PriceKeys =
          (IF t.stroom # None THEN PriceKeys \ {"gas_price"} ELSE {})
          \cup (IF t.gas # None THEN {"gas_price"} ELSE {})
    /\ t.stroom # None =>
          /\ m["electricity_price_single"] = t.stroom[1].leveringEnkelAllIn
          /\ m["electricity_price_low"] = t.stroom[1].leveringLaagAllIn
          /\ m["electricity_price_high"] = t.stroom[1].leveringHoogAllIn
          /\ m["electricity_return_price"] = t.stroom[1].terugleverVergoeding
    /\ t.gas # None => m["gas_price"] = t.gas[1].leveringAllIn

\* the tariffs a legacy payload carries: its 'huidig' sub-object when present
LegacyTariffs(payload) ==
    IF "huidig" \in DOMAIN payload THEN payload.huidig ELSE payload

\* update_contract_values has dealt with a usable answer of the legacy
\* endpoint that carries tariffs
LegacyTariffsServed ==
    /\ endpoint = TariffsEndpoint /\ rpc = "returned" /\ pc # "tariffs"
    /\ ret # None /\ Truthy(ret[1])
    /\ {"stroom", "gas"} \subseteq DOMAIN LegacyTariffs(pricing_json)

\* C6 as stated: a 404 from the rates endpoint is handed back by request()
\* by the attempt that received it, update_contract_values then asks
\* /api/tariffs, and the legacy payload (its 'huidig' sub-object when
\* present) fills the five price keys
C6_LegacyTariffsFallback ==
    /\ (rpc = "returned" /\ response # None /\ response[1].status_code = 404) =>
          ret = response
    /\ pc = "tariffs" => endpoint = TariffsEndpoint
    /\ LegacyTariffsServed => HoldsPricesOf(result, LegacyTariffs(pricing_json))

\* the products of the given type in the meter readings
ProductsOf(meter, productType) ==
    { i \in 1..Len(meter.productTypes) :
        meter.productTypes[i].productType = productType }

\* the readings of the product that have the latest reading date within a
\* month entry that has readings and whose month number no other month entry
\* with readings exceeds
LatestReadings(product) ==
    LET months == product.months
        WithReadings == { i \in 1..Len(months) : months[i].readings # << >> }
        Latest == { p \in WithReadings \X (1..(MaxReadings + 1)) :
                      /\ p[2] <= Len(months[p[1]].readings)
                      /\ \A i \in WithReadings : months[i].month <= months[p[1]].month
                      /\ \A j \in 1..Len(months[p[1]].readings) :
                            months[p[1]].readings[j].readingDate
                               <= months[p[1]].readings[p[2]].readingDate }
    IN  { months[p[1]].readings[p[2]] : p \in Latest }

\* the sum of two values, None when one of them is None
Sum(a, b) == IF a # None /\ b # None THEN Some(a[1] + b[1]) ELSE None

\* the values reported for the reading r of a product of the given type
ReportOf(productType, r) ==
    IF productType = "Stroom"
    THEN [k \in ElectricityUsageKeys |->
            CASE k = "electricity_consumption_low" -> r.offPeakConsumption
              [] k = "electricity_consumption_high" -> r.normalConsumption
              [] k = "electricity_consumption_total" ->
                     Sum(r.offPeakConsumption, r.normalConsumption)
              [] k = "electricity_return_low" -> r.offPeakFeedIn
              [] k = "electricity_return_high" -> r.normalFeedIn
              [] k = "electricity_return_total" ->
                     Sum(r.offPeakFeedIn, r.normalFeedIn)
              [] OTHER -> r.readingDate]
    ELSE [k \in GasUsageKeys |->
            IF k = "gas_consumption" THEN r.gas ELSE r.readingDate]

\* the mapping holds the values reported for a latest reading of the product
ReportsLatest(m, product) ==
    \E r \in LatestReadings(product) :
        LET report == ReportOf(product.productType, r)
        IN  /\ DOMAIN report \subseteq DOMAIN m
            /\ \A k \in DOMAIN report : m[k] = report[k]

\* C7 as stated: when the portal's meter readings hold an electricity product
\* with readings and no gas product, and no gas tariff was retrieved, update()
\* returns a mapping that has none of gas_consumption, measurement_date_gas
\* and gas_price and whose electricity keys hold the values of the
\* electricity reading, as they do when gas data is present
C7_GasAbsentElectricityUnaffected ==
    (/\ UpdateEnded /\ PreferencesServed
     /\ ProductsOf(portal_meter, "Gas") = {}
     /\ \E i \in ProductsOf(portal_meter, "Stroom") :
           LatestReadings(portal_meter.productTypes[i]) # {}) =>
        /\ UpdateReturned
        /\ DOMAIN result \cap (GasUsageKeys \cup {"gas_price"}) = {}
        /\ \E i \in ProductsOf(portal_meter, "Stroom") :
              ReportsLatest(result, portal_meter.productTypes[i])

\* C8 as stated: for a product of the portal's meter readings, the values
\* update_usage_values reports are those of one reading, which has the latest
\* reading date within a month entry that has readings and whose month number
\* no other month entry with readings exceeds; a product without readings in
\* any month contributes no keys
C8_LatestReadingOfLatestMonth ==
    (/\ UpdateEnded /\ PreferencesServed
     /\ Len(portal_meter.productTypes) = 1) =>
        LET product == portal_meter.productTypes[1]
        IN  IF LatestReadings(product) = {}
            THEN DOMAIN result \cap (ElectricityUsageKeys \cup GasUsageKeys) = {}
            ELSE \E r \in LatestReadings(product) :
                    result = ReportOf(product.productType, r)

\* C9: every update() call rebuilds the result from empty: the call starts
\* its fetches with an empty mapping (line 210), and when a later call of a
\* sequence has ended the mapping holds no keys but those of the call's own
\* fetches; with the preferences unavailable these are price keys only.
\* No call ever writes a key (every call ends at line 222), so the mapping is
\* empty in every reachable state: the property holds, but no state has a key
\* of an earlier call for line 210 to drop.
C9_ResultRebuiltFromEmpty ==
    /\ (op = "update" /\ pc = "preferences") => result = EmptyDict
    /\ (UpdateEnded /\ calls > 1) =>
          /\ DOMAIN result \subseteq
                PriceKeys \cup ElectricityUsageKeys \cup GasUsageKeys
          /\ ~PreferencesServed => DOMAIN result \subseteq PriceKeys

\* the step leaves the usage group for the init request of
\* update_contract_values, with nothing raised and no key added
SkipsToInit ==
    /\ pc' = "init" /\ rpc' = "send" /\ endpoint' = InitEndpoint /\ sends' = 0
    /\ result' = result /\ exc' = ""

\* C10 as stated: when the preferences request yields no response, invalid
\* JSON or a payload that fails validation, update_usage_values adds no key
\* and raises nothing, the meter readings are not asked for, and update()
\* goes on with the init request of the contract values
C10_UsageFailureSkipsToContract ==
    [][(/\ pc = "preferences" /\ rpc = "returned"
        /\ "subject" \notin DOMAIN preferences_json') => SkipsToInit]_vars

\* C11 as stated: once update_usage_values has ended for meter readings with
\* an electricity reading, the result holds the seven electricity keys, the
\* totals being the sums of their parts whenever the parts are numbers, also
\* for a reading with null sub-values; for meter readings with a gas reading
\* it holds gas_consumption and measurement_date_gas; no other usage key is
\* added
C11_SevenKeysForEveryReading ==
    (UpdateEnded /\ PreferencesServed) =>
        LET HasReading(productType) ==
                \E i \in ProductsOf(portal_meter, productType) :
                    LatestReadings(portal_meter.productTypes[i]) # {}
        IN  /\ HasReading("Stroom") =>
                  /\ ElectricityUsageKeys \subseteq DOMAIN result
                  /\ \A part \in {"consumption", "return"} :
                        LET low == result["electricity_" \o part \o "_low"]
                            high == result["electricity_" \o part \o "_high"]
                        IN  (low # None /\ high # None) =>
                                result["electricity_" \o part \o "_total"]
                                    = Some(low[1] + high[1])
            /\ HasReading("Gas") => GasUsageKeys \subseteq DOMAIN result
            /\ ~HasReading("Stroom") => DOMAIN result \cap ElectricityUsageKeys = {}
            /\ ~HasReading("Gas") => DOMAIN result \cap GasUsageKeys = {}

(* Properties of the login handshake and the session *)

HandshakeOrder == << "GET /", "POST login", "POST /signin-oidc" >>

\* request() returned None because the handshake of its frame failed
LoginFailureReturned ==
    rpc = "returned" /\ ret = None /\ frame_logins = 1 /\ frame_sends = 1

C12_Order ==
    /\ Len(handshake) <= Len(HandshakeOrder)
    /\ \A i \in 1..Len(handshake) : handshake[i].request = HandshakeOrder[i]
    \* a request of the handshake follows usable answers only
    /\ \A i \in 1..Len(handshake) : i < Len(handshake) => handshake[i].usable
    /\ (rpc = "login_post" /\ pc # "raised") => Len(handshake) = 1
    \* a scope input without value: the exception leaves after the credentials
    /\ (rpc = "login_post" /\ pc = "raised") =>
          (Len(handshake) = 2 /\ handshake[2].usable)
    /\ rpc = "login_oidc" => Len(handshake) = 2
    /\ rpc = "replay" => Len(handshake) = 3
    /\ LoginFailureReturned => (Len(handshake) = 2 /\ ~handshake[2].usable)

C12_Step ==
    \* the handshake grows by the next request of the order, or starts anew
    /\ handshake' # handshake =>
          \/ handshake' = << >>
          \/ Len(handshake') = 1 /\ rpc = "login_get"
          \/ /\ Len(handshake') = Len(handshake) + 1
             /\ SubSeq(handshake', 1, Len(handshake)) = handshake
    \* OIDC fields missing: the login failure ends the handshake
    /\ (/\ rpc = "login_post" /\ pc # "raised"
        /\ Len(handshake') = 2 /\ ~handshake'[2].usable) =>
          /\ rpc' = "returned" /\ ret' = None /\ exc' = ""
          /\ Len(handshake') = 2

\* C12: a login handshake sends GET portal root, POST credentials to the
\* login URL and POST /signin-oidc in this order, each after a usable answer
\* to the one before; when the OIDC fields are missing from the answer to the
\* credentials, the login failure ends the handshake and /signin-oidc is
\* not posted
C12_HandshakeOrder == []C12_Order /\ [][C12_Step]_vars

\* after a complete handshake and a failed replay, the handshake of the
\* second attempt stopped at the credentials
C12_Witness ==
    /\ LoginFailureReturned /\ logins = 2
    /\ Len(handshake) = 2 /\ handshake[1].usable /\ ~handshake[2].usable

C13_Sessions ==
    /\ session \notin closed
    /\ \A i \in 1..Len(handshake) : handshake[i].session = session
    /\ rpc = "received" => sent_on = session
    /\ (rpc = "returned" /\ frame_sends = 2) => sent_on = session
    /\ rpc \in {"login_post", "login_oidc"} => sent_on \in closed
    /\ LoginFailureReturned =>
          (sent_on \in closed /\ handshake[1].session = session)

C13_Step ==
    \* a session is installed by _activate_session only: the old one is closed,
    \* the new one has not existed before and carries the first request
    /\ session' # session =>
          /\ rpc = "login_get"
          /\ closed' = closed \cup {session}
          /\ session' \notin closed'
          /\ handshake' = << Sent("GET /", session', handshake'[1].usable) >>
    /\ closed' # closed => session' # session
    /\ logins' > logins => session' # session
    \* a target request goes through the session in place
    /\ sends' > sends => (sent_on' = session' /\ session' = session)

\* C13: each _activate_session call closes the session in place and installs
\* one that did not exist before, ahead of the first handshake request; every
\* later request, of the handshake or to the target, goes through the session
\* in place and never through a closed one, also after a failed handshake,
\* which leaves the new session in place
C13_FreshSessionPerLogin == []C13_Sessions /\ [][C13_Step]_vars

\* a handshake failed: the target request went through session 1, now
\* closed, and session 2 is in place
C13_Witness ==
    /\ LoginFailureReturned
    /\ session = 2 /\ closed = {1} /\ sent_on = 1
    /\ handshake[2].session = 2

-----------------------------------------------------------------------------
(* Properties of the rates query *)

\* the parameters of the query with the given key
Params(query, key) == { i \in 1..Len(query) : query[i][1] = key }

\* the query carries the key once, with the given value
Carries(query, key, value) ==
    /\ Cardinality(Params(query, key)) = 1
    /\ \A i \in Params(query, key) : query[i][2] = value

\* the addresses of the init payload that belong to the active contract, as
\* <<client, address>> places
ActiveAddresses(config) ==
    LET active == config.profile.voorkeursOvereenkomst
    IN  { place \in (1..Len(config.klantgegevens)) \X (1..MaxAddresses + 1) :
            /\ config.klantgegevens[place[1]].klantnummer = active.klantnummer
            /\ place[2] <= Len(config.klantgegevens[place[1]].adressen)
            /\ LET address == config.klantgegevens[place[1]].adressen[place[2]]
               IN  /\ address.klantnummer = active.klantnummer
                   /\ address.overeenkomstId = active.overeenkomstId }

\* the reference ids of the contracts of the address in the market segment
ReferenceIds(address, segment) ==
    { address.contracten[j].refId :
        j \in { k \in 1..Len(address.contracten) :
                  address.contracten[k].marktsegment = segment } }

\* the query carries the reference id and the agreement id of the fuel if
\* and only if the address has a contract in the market segment
CarriesFuel(query, fuel, address, segment, agreement) ==
    IF ReferenceIds(address, segment) = {}
    THEN /\ Params(query, "ReferenceId" \o fuel) = {}
         /\ Params(query, "AgreementId" \o fuel) = {}
    ELSE /\ Carries(query, "AgreementId" \o fuel, agreement)
         /\ \E id \in ReferenceIds(address, segment) :
                Carries(query, "ReferenceId" \o fuel, id)

\* C14: the rates query carries the house number and the postal code of the
\* address whose customer number and agreement id are those of the active
\* contract, the electricity reference and agreement ids if and only if that
\* address has a contract of market segment E, and the gas reference and
\* agreement ids if and only if that address has a gas contract
C14_RatesQueryOfActiveAddress ==
    (pc = "rates" /\ ActiveAddresses(init_config) # {}) =>
        /\ endpoint.path = "/api/v2/Rates/"
        /\ endpoint.args = << init_config.profile.voorkeursOvereenkomst.klantnummer >>
        /\ \E place \in ActiveAddresses(init_config) :
              LET address == init_config.klantgegevens[place[1]].adressen[place[2]]
                  agreement == init_config.profile.voorkeursOvereenkomst.overeenkomstId
              IN  /\ Carries(endpoint.query, "HouseNumber", address.huisnummer)
                  /\ Carries(endpoint.query, "ZipCode", address.postcode)
                  /\ CarriesFuel(endpoint.query, "Electricity", address, "E", agreement)
                  /\ CarriesFuel(endpoint.query, "Gas", address, "G", agreement)

\* the active address comes second, after an address of another agreement
\* that has both contracts, and has a gas contract only
C14_Witness ==
    /\ pc = "rates"
    /\ ActiveAddresses(init_config) = { <<2, 2>> }
    /\ Len(init_config.klantgegevens[2].adressen[1].contracten) = 2
    /\ Carries(endpoint.query, "HouseNumber", "2")
    /\ Carries(endpoint.query, "ReferenceIdGas", "21")
    /\ Params(endpoint.query, "ReferenceIdElectricity") = {}

-----------------------------------------------------------------------------
(* Properties of the returned mapping and of the returned response *)

\* C15: for every metric key in the mapping of update(), the
\* measurement-date key its sensor reads is in the same mapping. No call
\* ever writes a metric key (every call ends at line 222), so the property
\* holds with nothing to quantify over: no state has a metric key.
C15_MeasurementDatePresent ==
    \A measurement_type \in SensorNames \cap DOMAIN result :
        MeasurementDateKey(measurement_type) \in DOMAIN result

\* C16 as stated: a response request() hands back has no 302 redirect to the
\* authorize endpoint in its history, the response of the replay after a
\* re-login included
C16_NoExpiredResponseReturned ==
    (rpc = "returned" /\ ret # None) => ~Has302ToAuthorize(ret[1].history)

\* the handshake of the innermost frame ended on missing OIDC fields
HandshakeFailed == Len(handshake) = 2 /\ ~handshake[2].usable

\* C17: a value request() returns other than None is the frame's last
\* response, whose status is 404 or below 400; None is returned only after a
\* failed handshake or when the third attempt ended on an error status
C17_ReturnedValues ==
    rpc = "returned" =>
        /\ ret # None =>
              /\ ret = response
              /\ ret[1].status_code = 404 \/ ret[1].status_code < 400
              /\ ret[1].status_code # 403
        /\ ret = None =>
              \/ HandshakeFailed /\ response = None
              \/ /\ Attempt = 3
                 /\ response # None
                 /\ response[1].status_code >= 400
                 /\ response[1].status_code # 404

\* None was returned after three attempts, each answered 403 before and
\* after a re-login
C17_Witness ==
    /\ rpc = "returned" /\ ret = None /\ Attempt = 3 /\ logins = 3
    /\ response # None /\ response[1].status_code = 403

====
